---- MODULE Spec2Model ----
(***************************************************************************)
(* A model of the enumerative synthesis core of synthesis-playground:      *)
(* the syntax trees of synth/ast.py (equality, ordering, hashing), the      *)
(* constraints of synth/constraints.py, the evaluator of synth/eval.py,     *)
(* and Grammar.perform_substitution / enumerate_bottom_up /                 *)
(* enumerate_forever with the EquivalenceScreen of synth/enumerative.py.    *)
(*                                                                         *)
(* Python values are modelled as records of one shape so that any two can   *)
(* be compared.  A generator is modelled by the pair (out, err): the        *)
(* sequence of values it yields and the exception that ends it ("" when it  *)
(* returns normally).  The hash of a tuple is modelled as an injective      *)
(* function of the tuple (no accidental collisions).                        *)
(***************************************************************************)
EXTENDS Integers, Sequences, FiniteSets, TLC

(***************************************************************************)
(* Bounds of the model.                                                    *)
(***************************************************************************)
\* enumerate_forever is followed for depth = 0 .. MaxDepth - 1
MaxDepth == 4
\* for depth in range(0, 10000)
RangeEnd == 10000
\* perform_substitution is called directly with depth in 0 .. MaxCallDepth
MaxCallDepth == 3
\* the EquivalenceScreen is driven directly with at most MaxScreenOps calls
MaxScreenOps == 2

(***************************************************************************)
(* Sequences and sets.                                                      *)
(***************************************************************************)
\* the values of a sequence
SetOf(seq) == {seq[k] : k \in 1..Len(seq)}

\* a sequence given as a function, as the tuple of its values
Tuple(f) == f \o <<>>

\* F applied to the value of e, with e worked out once
With(e, F(_)) == CHOOSE r \in {F(x) : x \in {e}} : TRUE

\* the smallest member of a nonempty set of numbers
Least(S) == CHOOSE k \in S : \A j \in S : k <= j

(***************************************************************************)
(* Syntax trees (synth/ast.py) and placeholders (synth/symbols.py).         *)
(***************************************************************************)
Int_(v) == [kind |-> "Int", name |-> "", val |-> v, children |-> <<>>, constraints |-> <<>>]

Var(n) == [kind |-> "Var", name |-> n, val |-> 0, children |-> <<>>, constraints |-> <<>>]

Node(n, ch) == [kind |-> "Node", name |-> n, val |-> 0, children |-> ch, constraints |-> <<>>]

SymmetricNode(n, ch) == [kind |-> "Sym", name |-> n, val |-> 0, children |-> ch, constraints |-> <<>>]

Nonterminal(n, cs) == [kind |-> "NT", name |-> n, val |-> 0, children |-> <<>>, constraints |-> cs]

\* Python's None, which a function without a return statement evaluates to
None == [kind |-> "None", name |-> "", val |-> 0, children |-> <<>>, constraints |-> <<>>]

\* Nonterminal.__add__: a new symbol, same name, constraint appended
NtAdd(sym, c) == Nonterminal(sym.name, Append(sym.constraints, c))

IsValue(t) == t.kind \in {"Int", "Var"}

IsNode(t) == t.kind \in {"Node", "Sym"}

\* Node.holes_indices
holes_indices(t) == SelectSeq([i \in 1..Len(t.children) |-> i], LAMBDA i : t.children[i].kind = "NT")

\* Node.holes
holes(t) == SelectSeq(t.children, LAMBDA c : c.kind = "NT")

(***************************************************************************)
(* Ordering, equality and hashing of trees (synth/ordered.py, synth/ast.py)*)
(***************************************************************************)
\* the strings of the model in Python's str order (code point order)
StrOrder == <<"-1", "0", "1", "2", "add", "floordiv", "mul", "sub", "x", "y">>

StrRank(s) == CHOOSE i \in 1..Len(StrOrder) : StrOrder[i] = s

\* Python's s1 < s2 on str
StrLt(s1, s2) == StrRank(s1) < StrRank(s2)

\* Python's str(v) on the integers of the model
IntStr(v) == CASE v = -1 -> "-1" [] v = 0 -> "0" [] v = 1 -> "1" [] OTHER -> "2"

RECURSIVE Key(_)
\* Int.key / Var.key / Node.key: the tuple (name, *child keys)
Key(t) ==
  CASE t.kind = "Int" -> [name |-> IntStr(t.val), kids |-> <<>>]
    [] t.kind = "Var" -> [name |-> t.name, kids |-> <<>>]
    [] OTHER -> [name |-> t.name, kids |-> Tuple([i \in 1..Len(t.children) |-> Key(t.children[i])])]

Min2(a, b) == IF a < b THEN a ELSE b

RECURSIVE KeyLt(_, _)
\* Python's tuple comparison k1 < k2 of two keys: the first differing
\* item decides, a proper prefix is smaller
KeyLt(k1, k2) ==
  IF k1.name # k2.name THEN StrLt(k1.name, k2.name)
  ELSE With({i \in 1..Min2(Len(k1.kids), Len(k2.kids)) : k1.kids[i] # k2.kids[i]}, LAMBDA D :
         IF D = {} THEN Len(k1.kids) < Len(k2.kids)
         ELSE With(Least(D), LAMBDA i : KeyLt(k1.kids[i], k2.kids[i])))

RECURSIVE Eq(_, _)
RECURSIVE Lt(_, _)
RECURSIVE HashOf(_)
RECURSIVE PySet(_)
RECURSIVE InsertSorted(_, _)
RECURSIVE Sorted(_)

\* x in s for a Python set or tuple of trees s given as a sequence: an entry
\* with the same hash that compares equal
PyIn(x, s) == With(HashOf(x), LAMBDA h : \E i \in 1..Len(s) : HashOf(s[i]) = h /\ Eq(s[i], x))

\* set(children): the entries kept when the children are inserted in order
PySet(ch) ==
  IF ch = <<>> THEN <<>>
  ELSE With(PySet(SubSeq(ch, 1, Len(ch) - 1)), LAMBDA rest :
         IF PyIn(ch[Len(ch)], rest) THEN rest ELSE Append(rest, ch[Len(ch)]))

\* set(c1) == set(c2): same size and every entry of one is in the other
PySetEq(c1, c2) ==
  With(PySet(c1), LAMBDA s1 :
    With(PySet(c2), LAMBDA s2 :
      Len(s1) = Len(s2) /\ \A i \in 1..Len(s1) : PyIn(s1[i], s2)))

\* (name, children) == (name, children) of the dataclass-generated __eq__
FieldsEq(a, b) ==
  /\ a.name = b.name
  /\ Len(a.children) = Len(b.children)
  /\ \A i \in 1..Len(a.children) : Eq(a.children[i], b.children[i])

\* SymmetricNode.__eq__
SymEq(a, b) ==
  IF b.kind = "Sym" /\ PySetEq(b.children, a.children) THEN TRUE
  ELSE b.kind = "Sym" /\ FieldsEq(a, b)

\* Python's a == b: the __eq__ of the classes; operands of different classes
\* answer NotImplemented both ways and are unequal
Eq(a, b) ==
  CASE a.kind # b.kind -> FALSE
    [] a.kind = "Sym" -> SymEq(a, b)
    [] a.kind = "Node" -> FieldsEq(a, b)
    [] a.kind = "Int" -> a.val = b.val
    [] a.kind = "Var" -> a.name = b.name
    [] a.kind = "NT" -> a.name = b.name /\ a.constraints = b.constraints
    [] OTHER -> TRUE

\* SymmetricNode.__lt__: (name, *children) < (other.name, *other.children) when
\* other is a Node, and None (false) otherwise
SymLt(a, b) ==
  IF ~IsNode(b) THEN FALSE
  ELSE IF a.name # b.name THEN StrLt(a.name, b.name)
  ELSE With({i \in 1..Min2(Len(a.children), Len(b.children)) : ~Eq(a.children[i], b.children[i])},
            LAMBDA D :
              IF D = {} THEN Len(a.children) < Len(b.children)
              ELSE With(Least(D), LAMBDA i : Lt(a.children[i], b.children[i])))

\* Python's a < b as sorted() sees it, on complete trees: SymmetricNode.__lt__
\* or Ordered.__lt__ (comparison of the keys)
Lt(a, b) ==
  IF a.kind = "Sym" THEN SymLt(a, b)
  ELSE With(Key(a), LAMBDA ka : With(Key(b), LAMBDA kb : KeyLt(ka, kb)))

\* one step of the insertion sort: x goes before the entries it is smaller than
InsertSorted(s, x) ==
  IF s = <<>> THEN <<x>>
  ELSE IF Lt(x, s[Len(s)])
       THEN Append(InsertSorted(SubSeq(s, 1, Len(s) - 1), x), s[Len(s)])
       ELSE Append(s, x)

\* sorted(children): stable, decided by < alone
Sorted(ch) ==
  IF ch = <<>> THEN <<>>
  ELSE With(Sorted(SubSeq(ch, 1, Len(ch) - 1)), LAMBDA s : InsertSorted(s, ch[Len(ch)]))

\* hash((name, children)) of the dataclass-generated __hash__
PositionalHash(t) ==
  [shape |-> "nested", name |-> t.name, val |-> 0,
   kids |-> Tuple([i \in 1..Len(t.children) |-> HashOf(t.children[i])])]

\* SymmetricNode.__hash__
SymHash(t) ==
  IF holes(t) # <<>> THEN PositionalHash(t)
  ELSE With(Sorted(t.children), LAMBDA s :
         [shape |-> "flat", name |-> t.name, val |-> 0,
          kids |-> Tuple([i \in 1..Len(s) |-> HashOf(s[i])])])

\* hash(t): equal records stand for equal hashes
HashOf(t) ==
  CASE t.kind = "Sym" -> SymHash(t)
    [] t.kind = "Node" -> PositionalHash(t)
    [] t.kind = "Int" -> [shape |-> "int", name |-> "", val |-> t.val, kids |-> <<>>]
    [] t.kind = "Var" -> [shape |-> "flat", name |-> t.name, val |-> 0, kids |-> <<>>]
    [] t.kind = "NT" -> [shape |-> "nt", name |-> t.name, val |-> Len(t.constraints), kids |-> <<>>]
    [] OTHER -> [shape |-> "none", name |-> "", val |-> 0, kids |-> <<>>]

\* a tree without placeholders anywhere (None is not a tree)
RECURSIVE IsComplete(_)
IsComplete(t) ==
  \/ IsValue(t)
  \/ IsNode(t) /\ \A i \in 1..Len(t.children) : IsComplete(t.children[i])

(***************************************************************************)
(* The evaluator (synth/eval.py) with the operator table of                 *)
(* synth/__main__.py.  A result is the value returned (an integer, or None) *)
(* or the exception raised.                                                 *)
(***************************************************************************)
Returns(v) == [exc |-> "", key |-> "", none |-> FALSE, v |-> v]

ReturnsNone == [exc |-> "", key |-> "", none |-> TRUE, v |-> 0]

\* the exception raised; a KeyError carries the key that was looked up
Raises(e, key) == [exc |-> e, key |-> key, none |-> FALSE, v |-> 0]

\* the lambdas of the operator table applied to the evaluated children
ApplyOp(name, x) ==
  IF Len(x) < 2 THEN Raises("IndexError", "")
  ELSE IF x[1].none \/ x[2].none THEN Raises("TypeError", "")
  ELSE CASE name = "add" -> Returns(x[1].v + x[2].v)
         [] name = "sub" -> Returns(x[1].v - x[2].v)
         [] name = "mul" -> Returns(x[1].v * x[2].v)
         [] OTHER -> IF x[2].v = 0 THEN Raises("ZeroDivisionError", "")
                     ELSE IF x[2].v > 0 THEN Returns(x[1].v \div x[2].v)
                     ELSE Returns((0 - x[1].v) \div (0 - x[2].v))

RECURSIVE eval(_, _, _)
\* ASTEvaluator.eval, evals being the names of the operator table
eval(evals, node, binds) ==
  CASE node.kind = "Var" ->
         IF node.name \in DOMAIN binds THEN Returns(binds[node.name]) ELSE Raises("KeyError", node.name)
    [] node.kind = "Int" -> Returns(node.val)
    [] IsNode(node) ->
         IF node.name \notin evals THEN Raises("KeyError", node.name)
         ELSE With(Tuple([i \in 1..Len(node.children) |-> eval(evals, node.children[i], binds)]),
                   LAMBDA r :
                     With({i \in 1..Len(r) : r[i].exc # ""}, LAMBDA E :
                       IF E # {} THEN r[Least(E)] ELSE ApplyOp(node.name, r)))
    [] OTHER -> ReturnsNone

(***************************************************************************)
(* Constraints (synth/constraints.py).  is_valid_entry answers "True",      *)
(* "False" or the name of the exception it raises.                          *)
(***************************************************************************)
DoesNotEvaluateTo(v, evals, binds) == [c |-> "DoesNotEvaluateTo", val |-> v, evals |-> evals, binds |-> binds]

DistinctChildren == [c |-> "DistinctChildren", val |-> 0, evals |-> {}, binds |-> <<>>]

Dynamic == [c |-> "Dynamic", val |-> 0, evals |-> {}, binds |-> <<>>]

Bool(b) == IF b THEN "True" ELSE "False"

\* the exception that DoesNotEvaluateTo.is_valid_entry turns into acceptance
CaughtByDoesNotEvaluateTo == {"KeyError"}

\* DoesNotEvaluateTo.is_valid_entry
DoesNotEvaluateToValid(c, node) ==
  With(eval(c.evals, node, c.binds), LAMBDA r :
    IF r.exc \in CaughtByDoesNotEvaluateTo THEN "True"
    ELSE IF r.exc # "" THEN r.exc
    ELSE Bool(r.none \/ r.v # c.val))

\* DistinctChildren.is_valid_entry
DistinctChildrenValid(node) ==
  IF IsValue(node) THEN "True"
  ELSE IF ~IsNode(node) THEN "AttributeError"
  ELSE Bool(\A i, j \in 1..Len(node.children) :
              i # j => ~Eq(node.children[i], node.children[j]))

RECURSIVE DynamicValidAnyValue(_)
\* the same matching any leaf, `case ast.Value()`, where the code matches
\* `case ast.Var()`
DynamicValidAnyValue(node) ==
  CASE IsValue(node) -> TRUE
    [] IsNode(node) -> \E i \in 1..Len(node.children) : DynamicValidAnyValue(node.children[i])
    [] OTHER -> FALSE

RECURSIVE DynamicValid(_)
\* Dynamic.is_valid_entry
DynamicValid(node) ==
  CASE node.kind = "Var" -> TRUE
    [] IsNode(node) -> \E i \in 1..Len(node.children) : DynamicValid(node.children[i])
    [] OTHER -> FALSE

\* GenerationConstraint.is_valid_entry, by variant
is_valid_entry(c, node) ==
  CASE c.c = "DoesNotEvaluateTo" -> DoesNotEvaluateToValid(c, node)
    [] c.c = "DistinctChildren" -> DistinctChildrenValid(node)
    [] OTHER -> Bool(DynamicValid(node))

RECURSIVE AllValid(_, _)
\* all(c.is_valid_entry(node) for c in constraints): the first constraint that
\* rejects or raises decides
AllValid(constraints, node) ==
  IF constraints = <<>> THEN "True"
  ELSE With(is_valid_entry(Head(constraints), node), LAMBDA r :
         IF r = "True" THEN AllValid(Tail(constraints), node) ELSE r)

\* Nonterminal.accepts
accepts(sym, node) == AllValid(sym.constraints, node)

(***************************************************************************)
(* Replacing children (synth/ast.py).                                       *)
(***************************************************************************)
\* Node.replace_children with len(ids) = len(replacements): the replaced
\* positions take the replacements in the order of the positions
NodeReplaceChildren(t, ids, replacements) ==
  With({ids[k] : k \in 1..Len(ids)}, LAMBDA id_set :
    Node(t.name,
         Tuple([i \in 1..Len(t.children) |->
                  IF i \in id_set
                  THEN replacements[Cardinality({j \in id_set : j <= i})]
                  ELSE t.children[i]])))

\* SymmetricNode.replace_children: the case of one replacement builds the node
\* and falls off the end of the function
SymReplaceChildren(t, ids, replacements) ==
  CASE Len(replacements) = 2 -> SymmetricNode(t.name, <<replacements[1], replacements[2]>>)
    [] Len(replacements) = 1 -> None
    [] Len(replacements) = 0 -> t
    [] OTHER -> None

replace_children(t, ids, replacements) ==
  IF t.kind = "Sym" THEN SymReplaceChildren(t, ids, replacements)
  ELSE NodeReplaceChildren(t, ids, replacements)

(***************************************************************************)
(* Production rules and the grammar (synth/enumerative.py).  A rule has the *)
(* shape of a tree record: name is the name of its left-hand side, its one  *)
(* child is its right-hand side.                                            *)
(***************************************************************************)
ProductionRule(lhs, rhs, cs) ==
  [kind |-> "Rule", name |-> lhs.name, val |-> 0, children |-> <<rhs>>, constraints |-> cs]

Rhs(rule) == rule.children[1]

\* ProductionRule.can_substitute: every constraint of the rule accepts
can_substitute(rule, node) == AllValid(rule.constraints, node)

\* Grammar(start): no rules yet
Grammar(start) == [start |-> start, rules |-> <<>>]

\* Grammar.__iadd__
GrammarAdd(g, rule) == [g EXCEPT !.rules = Append(@, rule)]

\* self._maps[name]: the rules of the symbol, in the order they were appended
Maps(g, name) == SelectSeq(g.rules, LAMBDA r : r.name = name)

(***************************************************************************)
(* Generators: out is what is yielded, err the exception that ends it.      *)
(***************************************************************************)
Gen(out, err) == [out |-> out, err |-> err]

\* filter(all constraints accept, items): the accepted items, up to the first
\* item on which a constraint raises
FilterSeq(cs, items) ==
  With(Tuple([k \in 1..Len(items) |-> AllValid(cs, items[k])]), LAMBDA v :
    With({k \in 1..Len(items) : v[k] \notin {"True", "False"}}, LAMBDA E :
      With(IF E = {} THEN Len(items) + 1 ELSE Least(E), LAMBDA stop :
        With(SelectSeq(Tuple([k \in 1..(stop - 1) |-> k]), LAMBDA k : v[k] = "True"), LAMBDA kept :
          Gen(Tuple([k \in 1..Len(kept) |-> items[kept[k]]]), IF E = {} THEN "" ELSE v[stop])))))

\* filter over a generator: an exception of the predicate comes first,
\* otherwise the generator's own
FilterGen(cs, gen) ==
  With(gen, LAMBDA g0 :
    With(FilterSeq(cs, g0.out), LAMBDA f : IF f.err # "" THEN f ELSE Gen(f.out, g0.err)))

RECURSIVE Concat(_, _)
\* the values of the first n generators of gens, one after the other
Concat(gens, n) == IF n = 0 THEN <<>> ELSE Concat(gens, n - 1) \o gens[n].out

\* one generator after the other, up to the first exception
ChainGen(gens) ==
  With({i \in 1..Len(gens) : gens[i].err # ""}, LAMBDA E :
    IF E = {} THEN Gen(Concat(gens, Len(gens)), "")
    ELSE Gen(Concat(gens, Least(E)), gens[Least(E)].err))

\* the same pairs with the loops exchanged, [x + [y] for y in pool for x in
\* result]: the new pool would vary slowest
ProductStepPoolOutermost(result, pool) ==
  Tuple([k \in 1..(Len(result) * Len(pool)) |->
           Append(result[((k - 1) % Len(result)) + 1], pool[((k - 1) \div Len(result)) + 1])])

\* [x + [y] for x in result for y in pool] of itertools.product
ProductStep(result, pool) ==
  Tuple([k \in 1..(Len(result) * Len(pool)) |->
           Append(result[((k - 1) \div Len(pool)) + 1], pool[((k - 1) % Len(pool)) + 1])])

RECURSIVE Product(_, _)
\* itertools.product of the first n pools: the leftmost pool varies slowest
Product(pools, n) ==
  IF n = 0 THEN << <<>> >>
  ELSE With(Product(pools, n - 1), LAMBDA result : ProductStep(result, pools[n]))

(***************************************************************************)
(* Grammar.perform_substitution.  The recursion into depth - 1 is the same  *)
(* for every rule of the grammar, so what each placeholder of the grammar   *)
(* gives at depth - 1 is worked out once per depth (Pools) and looked up    *)
(* where the code calls perform_substitution(hole, depth - 1).              *)
(***************************************************************************)
RECURSIVE AllHoles(_)
\* the placeholders of the templates of the rules, rule after rule
AllHoles(rules) ==
  IF rules = <<>> THEN <<>>
  ELSE LET rhs == Rhs(Head(rules))
       IN (IF IsNode(rhs) THEN holes(rhs) ELSE <<>>) \o AllHoles(Tail(rules))

\* the same without repetition
HoleSeq(rules) ==
  With(AllHoles(rules), LAMBDA hs :
    With(SelectSeq(Tuple([i \in 1..Len(hs) |-> i]), LAMBDA i : \A j \in 1..(i - 1) : hs[j] # hs[i]),
         LAMBDA first : Tuple([k \in 1..Len(first) |-> hs[first[k]]])))

\* perform_substitution(hole, depth - 1), looked up in the pools of depth - 1
PoolOf(lower, hole) == lower.pools[CHOOSE i \in 1..Len(lower.holes) : lower.holes[i] = hole]

RECURSIVE Substitute(_, _, _)

\* production is a Nonterminal: every rule of the symbol at the same depth,
\* filtered by the constraints of this usage of the symbol
SubstituteNonterminal(g, sym, lower) ==
  LET rules == Maps(g, sym.name)
  IN With(Tuple([i \in 1..Len(rules) |->
                   FilterGen(sym.constraints, Substitute(g, rules[i], lower))]),
          LAMBDA gens : ChainGen(gens))

\* the rule produces another nonterminal: the rules of that symbol at the same
\* depth, filtered by the constraints of the rule
SubstituteAlias(g, production, sym, lower) ==
  LET rules == Maps(g, sym.name)
  IN With(Tuple([i \in 1..Len(rules) |-> Substitute(g, rules[i], lower)]),
          LAMBDA gens : FilterGen(production.constraints, ChainGen(gens)))

\* the candidates of a Node template: one per fill, in the order of the fills
Candidates(node, fills) ==
  Tuple([k \in 1..Len(fills) |-> replace_children(node, holes_indices(node), fills[k])])

\* the rule produces a Node: its holes are filled with what they give at
\* depth - 1; itertools.product drains the generators of the holes first
SubstituteNode(g, production, node, lower) ==
  With(Tuple([i \in 1..Len(holes(node)) |-> PoolOf(lower, holes(node)[i])]), LAMBDA pools :
    With({i \in 1..Len(pools) : pools[i].err # ""}, LAMBDA E :
       IF E # {} THEN Gen(<<>>, pools[Least(E)].err)
       ELSE With(Product(Tuple([i \in 1..Len(pools) |-> pools[i].out]), Len(pools)), LAMBDA fills :
              With(Candidates(node, fills), LAMBDA candidates :
                FilterGen(production.constraints, Gen(candidates, ""))))))

\* perform_substitution at a depth > 0, lower being the pools of depth - 1
Substitute(g, production, lower) ==
  IF production.kind = "NT" THEN SubstituteNonterminal(g, production, lower)
  ELSE LET rhs == Rhs(production)
       IN CASE rhs.kind = "NT" -> SubstituteAlias(g, production, rhs, lower)
            [] IsNode(rhs) -> SubstituteNode(g, production, rhs, lower)
            [] IsValue(rhs) -> FilterGen(production.constraints, Gen(<<rhs>>, ""))
            [] OTHER -> Gen(<<>>, "ValueError")

\* the trees production.can_substitute is called with while the rule is
\* expanded at a depth > 0: the candidates up to the first one it raises on
HandedToRule(g, production, lower) ==
  LET rhs == Rhs(production)
      rules == Maps(g, rhs.name)
      candidates ==
        CASE rhs.kind = "NT" -> ChainGen(Tuple([i \in 1..Len(rules) |-> Substitute(g, rules[i], lower)])).out
          [] IsNode(rhs) ->
               With(Tuple([i \in 1..Len(holes(rhs)) |-> PoolOf(lower, holes(rhs)[i])]), LAMBDA pools :
                 IF \E i \in 1..Len(pools) : pools[i].err # "" THEN <<>>
                 ELSE Candidates(rhs, Product(Tuple([i \in 1..Len(pools) |-> pools[i].out]), Len(pools))))
          [] IsValue(rhs) -> <<rhs>>
          [] OTHER -> <<>>
  IN With(candidates, LAMBDA c :
       LET E == {k \in 1..Len(c) : can_substitute(production, c[k]) \notin {"True", "False"}}
       IN IF E = {} THEN c ELSE SubSeq(c, 1, Least(E)))

\* the pools of one depth holding only the trees the depth below did not
\* give yet, as an enumeration that keeps the new trees of each depth would
PoolsFromNewTreesOnly(g, lower) ==
  [holes |-> lower.holes,
   pools |-> Tuple([i \in 1..Len(lower.holes) |->
               With(SubstituteNonterminal(g, lower.holes[i], lower), LAMBDA full :
                 Gen(SelectSeq(full.out, LAMBDA t : t \notin SetOf(lower.pools[i].out)), full.err))])]

\* the pools of one depth from those of the depth below
PoolsFrom(g, lower) ==
  [holes |-> lower.holes,
   pools |-> Tuple([i \in 1..Len(lower.holes) |-> SubstituteNonterminal(g, lower.holes[i], lower)])]

RECURSIVE Pools(_, _)
\* what each placeholder of the grammar gives at the depth: nothing at
\* depth <= 0
Pools(g, depth) ==
  IF depth <= 0
  THEN With(HoleSeq(g.rules), LAMBDA hs :
         [holes |-> hs, pools |-> Tuple([i \in 1..Len(hs) |-> Gen(<<>>, "")])])
  ELSE With(Pools(g, depth - 1), LAMBDA lower : PoolsFrom(g, lower))

\* the same with the guard one too high, `if depth <= 1: return`
perform_substitution_guard_at_one(g, production, depth) ==
  IF depth <= 1 THEN Gen(<<>>, "")
  ELSE With(Pools(g, depth - 1), LAMBDA lower : Substitute(g, production, lower))

\* Grammar.perform_substitution
perform_substitution(g, production, depth) ==
  IF depth <= 0 THEN Gen(<<>>, "")
  ELSE With(Pools(g, depth - 1), LAMBDA lower : Substitute(g, production, lower))

(***************************************************************************)
(* The grammars the model runs on: those of tests/test_enumeration.py, the  *)
(* grammars of synth/__main__.py and synth/enumerative.py cut down to a few *)
(* leaves and one operator each, and small grammars built from the same     *)
(* pieces.                                                                  *)
(***************************************************************************)
\* operator tables: ASTEvaluator({}), ASTEvaluator({'add': ...}), the table of __main__
NoOps == {}

AddOnly == {"add"}

MainOps == {"add", "sub", "mul", "floordiv"}

\* variable bindings: {} and {'x': 1, 'y': 2}
NoBinds == <<>>

XYBinds == [x |-> 1, y |-> 2]

nonzero == DoesNotEvaluateTo(0, MainOps, NoBinds)

P == Nonterminal("P", <<>>)

A == Nonterminal("A", <<>>)

B == Nonterminal("B", <<>>)

val == Nonterminal("val", <<>>)

RECURSIVE GrammarOf(_, _)
\* g = Grammar(start); g += rule, for each rule in order
GrammarOf(start, rules) ==
  IF rules = <<>> THEN Grammar(start)
  ELSE GrammarAdd(GrammarOf(start, SubSeq(rules, 1, Len(rules) - 1)), rules[Len(rules)])

\* test_subst
G1 == GrammarOf(P, <<ProductionRule(P, Int_(1), <<>>), ProductionRule(P, Int_(2), <<>>)>>)

\* test_subst_constr
G2 ==
  LET constr == DoesNotEvaluateTo(1, NoOps, NoBinds)
  IN GrammarOf(P, <<ProductionRule(P, Int_(1), <<constr>>), ProductionRule(P, Int_(2), <<constr>>)>>)

\* test_subst_nested
G3 == GrammarOf(P, <<ProductionRule(P, Int_(1), <<>>), ProductionRule(A, Node("add", <<P, P>>), <<>>)>>)

\* test_subst_nested_constr
G4 ==
  LET nz == DoesNotEvaluateTo(0, AddOnly, NoBinds)
  IN GrammarOf(A, <<ProductionRule(P, Int_(0), <<>>), ProductionRule(P, Int_(1), <<>>),
                    ProductionRule(A, Node("add", <<NtAdd(P, nz), P>>), <<>>)>>)

\* a symmetric operator and no constraint on a rule: A ::= x | add(A: /=0, A: /=0)
G5 ==
  GrammarOf(A, <<ProductionRule(A, Var("x"), <<>>),
                 ProductionRule(A, SymmetricNode("add", <<NtAdd(A, nonzero), NtAdd(A, nonzero)>>), <<>>)>>)

\* a constraint on a placeholder that evaluates a division:
\* A ::= floordiv(A: /=1, A: /=1) | sub(A, A) | 0 | 1
G6 ==
  LET notone == DoesNotEvaluateTo(1, MainOps, NoBinds)
  IN GrammarOf(A, <<ProductionRule(A, Node("floordiv", <<NtAdd(A, notone), NtAdd(A, notone)>>), <<>>),
                    ProductionRule(A, Node("sub", <<A, A>>), <<>>),
                    ProductionRule(A, Int_(0), <<>>), ProductionRule(A, Int_(1), <<>>)>>)

\* __main__: val ::= x | y;  A ::= val | add(A: /=0, A: /=0): distinct, dyn  (add symmetric)
G7 ==
  GrammarOf(A, <<ProductionRule(val, Var("x"), <<>>), ProductionRule(val, Var("y"), <<>>),
                 ProductionRule(A, val, <<>>),
                 ProductionRule(A, SymmetricNode("add", <<NtAdd(A, nonzero), NtAdd(A, nonzero)>>),
                                <<DistinctChildren, Dynamic>>)>>)

\* aliases: A ::= B | sub(A, 1);  B ::= val: /=0;  val ::= 0 | 1
G8 ==
  GrammarOf(A, <<ProductionRule(val, Int_(0), <<>>), ProductionRule(val, Int_(1), <<>>),
                 ProductionRule(B, NtAdd(val, nonzero), <<>>),
                 ProductionRule(A, B, <<>>),
                 ProductionRule(A, Node("sub", <<A, Int_(1)>>), <<>>)>>)

\* an operator the evaluator of the constraint does not know
G9 ==
  GrammarOf(A, <<ProductionRule(P, Int_(0), <<>>), ProductionRule(P, Int_(1), <<>>),
                 ProductionRule(A, Node("mul", <<P, P>>), <<DoesNotEvaluateTo(0, AddOnly, NoBinds)>>)>>)

\* enumerative.py: A ::= val | add(A, A): distinct | sub(A, A: /=0): distinct, over x
\* with the bindings {'x': 1, 'y': 2}
G10 ==
  LET C_Nonzero == DoesNotEvaluateTo(0, MainOps, XYBinds)
  IN GrammarOf(A, <<ProductionRule(val, Int_(0), <<>>), ProductionRule(val, Var("x"), <<>>),
                    ProductionRule(A, val, <<>>),
                    ProductionRule(A, SymmetricNode("add", <<NtAdd(A, C_Nonzero), NtAdd(A, C_Nonzero)>>),
                                   <<DistinctChildren>>),
                    ProductionRule(A, Node("sub", <<A, NtAdd(A, C_Nonzero)>>), <<DistinctChildren>>)>>)

\* a symmetric template with one placeholder
G11 ==
  GrammarOf(A, <<ProductionRule(A, Var("x"), <<>>),
                 ProductionRule(A, SymmetricNode("add", <<A, Int_(1)>>), <<>>)>>)

\* the same with a constraint on the rule, and the leaf after it
G12 ==
  GrammarOf(A, <<ProductionRule(A, SymmetricNode("add", <<A, Int_(1)>>), <<DistinctChildren>>),
                 ProductionRule(A, Var("x"), <<>>)>>)

\* val ::= 0 | 1 | x;  A ::= val | add(A, A): distinct, dyn
G13 ==
  GrammarOf(A, <<ProductionRule(val, Int_(0), <<>>), ProductionRule(val, Int_(1), <<>>),
                 ProductionRule(val, Var("x"), <<>>),
                 ProductionRule(A, val, <<>>),
                 ProductionRule(A, Node("add", <<A, A>>), <<DistinctChildren, Dynamic>>)>>)

Grammars == <<G1, G2, G3, G4, G5, G6, G7, G8, G9, G10, G11, G12, G13>>

GrammarIds == 1..Len(Grammars)

\* the grammars an enumerate_forever session is followed on: the end-to-end
\* scenario is a scenario of perform_substitution at a given depth
SessionGrammarIds == {i \in GrammarIds : Grammars[i] # G13}

\* the symbol usages perform_substitution is called with directly: the plain
\* symbols and, as in test_subst_constr2, a symbol with a constraint added
SymbolUsages ==
  {P, A, B, val, NtAdd(P, DoesNotEvaluateTo(1, NoOps, NoBinds)), NtAdd(A, nonzero), NtAdd(A, Dynamic)}

\* what perform_substitution may be called with on grammar g
Productions(g) == {g.rules[i] : i \in 1..Len(g.rules)} \cup {s \in SymbolUsages : Maps(g, s.name) # <<>>}

(***************************************************************************)
(* The EquivalenceScreen (synth/enumerative.py).                            *)
(***************************************************************************)
\* ast in self.generated_programs
InPrograms(ast, programs) ==
  With(HashOf(ast), LAMBDA h : \E s \in programs : HashOf(s) = h /\ Eq(s, ast))

\* EquivalenceScreen.is_useful_program
is_useful_program(programs, ast) == With(ast, LAMBDA tree : ~InPrograms(tree, programs))

\* EquivalenceScreen.register_program: set.add keeps the entry already there
register_program(programs, ast) == IF InPrograms(ast, programs) THEN programs ELSE programs \cup {ast}

(***************************************************************************)
(* State.                                                                  *)
(***************************************************************************)
VARIABLES
  gid,                 \* the grammar in use (an index into Grammars)
  pc,                  \* where the enumerate_forever generator stands
  depth,               \* the depth of the running enumerate_bottom_up
  prod_idx,            \* the index of the production being enumerated
  cands,               \* perform_substitution(prod, depth) of that production
  pos,                 \* how many of its values have been taken
  generated_programs,  \* EquivalenceScreen.generated_programs
  emitted,             \* the trees yielded to the consumer so far, in order
  registered,          \* the trees register_program was called with so far
  call,                \* the last direct call
  result               \* and what it gave

vars == <<gid, pc, depth, prod_idx, cands, pos, generated_programs, emitted, registered, call, result>>

session_vars == <<pc, depth, prod_idx, cands, pos, generated_programs, emitted, registered>>

TheGrammar == Grammars[gid]

\* self._maps[self.start.name]
StartProductions == Maps(TheGrammar, TheGrammar.start.name)

NoCall == [op |-> "none"]

NoResult == [op |-> "none"]

SessionInit ==
  /\ pc = "created"
  /\ depth = 0
  /\ prod_idx = 0
  /\ cands = Gen(<<>>, "")
  /\ pos = 0
  /\ generated_programs = {}
  /\ emitted = <<>>
  /\ registered = {}

(***************************************************************************)
(* Direct calls of perform_substitution and of is_valid_entry.              *)
(***************************************************************************)
\* the trees constraints are asked about
ProbeTrees ==
  {Var("x"), Int_(0), Int_(1), None,
   Node("add", <<Int_(0), Int_(0)>>), Node("add", <<Int_(1), Var("x")>>),
   Node("mul", <<Int_(1), Int_(0)>>), Node("floordiv", <<Int_(1), Int_(0)>>),
   Node("floordiv", <<Int_(1), Int_(1)>>), SymmetricNode("add", <<Var("x"), Var("x")>>)}

\* the constraints asked
ProbeConstraints ==
  {DoesNotEvaluateTo(0, NoOps, NoBinds), DoesNotEvaluateTo(0, AddOnly, NoBinds),
   DoesNotEvaluateTo(1, MainOps, NoBinds), DoesNotEvaluateTo(1, MainOps, XYBinds),
   DistinctChildren, Dynamic}

InitSubst ==
  /\ gid \in GrammarIds
  /\ SessionInit
  /\ call = NoCall
  /\ result = NoResult

CallPerformSubstitution ==
  \E production \in Productions(TheGrammar), d \in 0..MaxCallDepth :
    /\ call = NoCall
    /\ call' = [op |-> "perform_substitution", production |-> production, depth |-> d]
    /\ result' = perform_substitution(TheGrammar, production, d)
    /\ UNCHANGED <<gid, session_vars>>

CallIsValidEntry ==
  \E c \in ProbeConstraints, node \in ProbeTrees :
    /\ call = NoCall
    /\ call' = [op |-> "is_valid_entry", c |-> c, node |-> node]
    /\ result' = [verdict |-> is_valid_entry(c, node)]
    /\ UNCHANGED <<gid, session_vars>>

NextSubst == CallPerformSubstitution \/ CallIsValidEntry

SpecSubst == InitSubst /\ [][NextSubst]_vars

(***************************************************************************)
(* One enumerate_forever session: the generator                             *)
(*     for depth in range(0, 10000):                                        *)
(*         for prod in self._maps[self.start.name]:                         *)
(*             for ast in self.perform_substitution(prod, depth=depth):     *)
(*                 if screen.is_useful_program(ast):                        *)
(*                     yield ast                                            *)
(*                     screen.register_program(ast)                         *)
(* driven by a consumer that calls next() on it.  pc is the place the       *)
(* generator stands at; it rests at "yielded" between two calls of next().  *)
(***************************************************************************)
Init ==
  /\ gid \in SessionGrammarIds
  /\ SessionInit
  /\ call = NoCall
  /\ result = NoResult

\* the first next(): the generator enters the loop over the depths
Start ==
  /\ pc = "created"
  /\ pc' = "next_prod"
  /\ depth' = 0
  /\ prod_idx' = 0
  /\ UNCHANGED <<gid, cands, pos, generated_programs, emitted, registered, call, result>>

\* the loop over the productions of the start symbol takes the next one and
\* calls perform_substitution on it
NextProduction ==
  /\ pc = "next_prod"
  /\ prod_idx < Len(StartProductions)
  /\ prod_idx' = prod_idx + 1
  /\ cands' = perform_substitution(TheGrammar, StartProductions[prod_idx + 1], depth)
  /\ pos' = 0
  /\ pc' = "next_ast"
  /\ UNCHANGED <<gid, depth, generated_programs, emitted, registered, call, result>>

\* the productions are exhausted: enumerate_bottom_up returns and the loop over
\* the depths goes on, or ends with the range
NextDepth ==
  /\ pc = "next_prod"
  /\ prod_idx = Len(StartProductions)
  /\ depth + 1 < MaxDepth
  /\ IF depth + 1 < RangeEnd
     THEN depth' = depth + 1 /\ prod_idx' = 0 /\ pc' = "next_prod"
     ELSE pc' = "done" /\ UNCHANGED <<depth, prod_idx>>
  /\ UNCHANGED <<gid, cands, pos, generated_programs, emitted, registered, call, result>>

\* the next tree of perform_substitution is new to the screen: it is yielded
Yield ==
  /\ pc = "next_ast"
  /\ pos < Len(cands.out)
  /\ is_useful_program(generated_programs, cands.out[pos + 1])
  /\ emitted' = Append(emitted, cands.out[pos + 1])
  /\ pos' = pos + 1
  /\ pc' = "yielded"
  /\ UNCHANGED <<gid, depth, prod_idx, cands, generated_programs, registered, call, result>>

\* the next tree of perform_substitution is known to the screen: it is dropped
Skip ==
  /\ pc = "next_ast"
  /\ pos < Len(cands.out)
  /\ ~is_useful_program(generated_programs, cands.out[pos + 1])
  /\ pos' = pos + 1
  /\ UNCHANGED <<gid, pc, depth, prod_idx, cands, generated_programs, emitted, registered, call, result>>

\* perform_substitution raises: the exception leaves the generator
Raise ==
  /\ pc = "next_ast"
  /\ pos = Len(cands.out)
  /\ cands.err # ""
  /\ pc' = "raised"
  /\ UNCHANGED <<gid, depth, prod_idx, cands, pos, generated_programs, emitted, registered, call, result>>

\* the same leaving the loop over the productions, as a `return` after the
\* first exhausted production would
EndOfProductionLeavesLoop ==
  /\ pc = "next_ast"
  /\ pos = Len(cands.out)
  /\ cands.err = ""
  /\ pc' = "next_prod"
  /\ prod_idx' = Len(StartProductions)
  /\ UNCHANGED <<gid, depth, cands, pos, generated_programs, emitted, registered, call, result>>

\* perform_substitution is exhausted
EndOfProduction ==
  /\ pc = "next_ast"
  /\ pos = Len(cands.out)
  /\ cands.err = ""
  /\ pc' = "next_prod"
  /\ UNCHANGED <<gid, depth, prod_idx, cands, pos, generated_programs, emitted, registered, call, result>>

\* the next call of next(): the generator resumes after the yield and
\* registers the tree it yielded
Resume ==
  /\ pc = "yielded"
  /\ generated_programs' = register_program(generated_programs, emitted[Len(emitted)])
  /\ registered' = registered \cup {emitted[Len(emitted)]}
  /\ pc' = "next_ast"
  /\ UNCHANGED <<gid, depth, prod_idx, cands, pos, emitted, call, result>>

Next == Start \/ NextProduction \/ NextDepth \/ Yield \/ Skip \/ Raise \/ EndOfProduction \/ Resume

Spec == Init /\ [][Next]_vars

\* the consumer keeps pulling: the generator always takes its next step
FairSpec == Spec /\ WF_vars(Next)

(***************************************************************************)
(* Direct calls of the EquivalenceScreen.                                   *)
(***************************************************************************)
\* the trees the screen is called with
ScreenTrees ==
  LET x == Var("x")
      zero == Int_(0)
      s == SymmetricNode("add", <<x, zero>>)
  IN {x, zero, s, SymmetricNode("add", <<zero, x>>),
      SymmetricNode("add", <<x, s>>), SymmetricNode("add", <<s, x>>),
      SymmetricNode("add", <<zero, s>>), SymmetricNode("add", <<s, zero>>),
      SymmetricNode("mul", <<x, zero>>), SymmetricNode("mul", <<zero, x>>),
      Node("sub", <<x, zero>>), Node("sub", <<zero, x>>)}

InitScreen ==
  /\ gid = 1
  /\ SessionInit
  /\ call = NoCall
  /\ result = NoResult

CallRegisterProgram ==
  \E ast \in ScreenTrees :
    /\ Cardinality(registered) < MaxScreenOps
    /\ generated_programs' = register_program(generated_programs, ast)
    /\ registered' = registered \cup {ast}
    /\ call' = [op |-> "register_program", ast |-> ast]
    /\ result' = NoResult
    /\ UNCHANGED <<gid, pc, depth, prod_idx, cands, pos, emitted>>

CallIsUsefulProgram ==
  \E ast \in ScreenTrees :
    /\ call' = [op |-> "is_useful_program", ast |-> ast]
    /\ result' = [useful |-> is_useful_program(generated_programs, ast)]
    /\ UNCHANGED <<gid, session_vars>>

NextScreen == CallRegisterProgram \/ CallIsUsefulProgram

SpecScreen == InitScreen /\ [][NextScreen]_vars

(***************************************************************************)
(* Properties of the EquivalenceScreen and of the trees a session emits.    *)
(***************************************************************************)
\* the symmetric tree with its two children exchanged
Swapped(t) == [t EXCEPT !.children = <<t.children[2], t.children[1]>>]

\* C1: within one enumerate_forever session no two emitted trees are
\* canonically equal (==): a tree emitted once is never emitted again, at the
\* same depth or at a deeper one.
C1_NoTreeEmittedTwice ==
  \A i \in 1..Len(emitted) : \A j \in 1..Len(emitted) :
    i < j => ~Eq(emitted[i], emitted[j])

\* C2: for every SymmetricNode operator op and all complete trees a and b,
\* op(a, b) and op(b, a) compare equal and have equal hashes, so that once
\* op(a, b) was registered is_useful_program(op(b, a)) returns false.
C2_SwappedChildrenScreened ==
  (/\ call.op = "is_useful_program"
   /\ call.ast.kind = "Sym"
   /\ Len(call.ast.children) = 2
   /\ IsComplete(call.ast)
   /\ Swapped(call.ast) \in registered)
  => (/\ Eq(Swapped(call.ast), call.ast)
      /\ HashOf(Swapped(call.ast)) = HashOf(call.ast)
      /\ result.useful = FALSE)

(***************************************************************************)
(* Properties of perform_substitution.                                      *)
(***************************************************************************)
\* C3: every value perform_substitution yields, for any production and any
\* depth, is a complete tree: a Value, or a Node with no placeholder among
\* its descendants.
C3_YieldsCompleteTrees ==
  call.op = "perform_substitution"
  => \A k \in 1..Len(result.out) : IsComplete(result.out[k])

\* C4: a Nonterminal's attached constraints filter every tree produced where
\* the symbol is used: given to perform_substitution directly, standing as a
\* placeholder child of a Node template, or standing as the right-hand side
\* of an alias rule, every tree produced for that position is accepted by
\* all the constraints attached to the symbol.
C4_SiteConstraintsFilter ==
  call.op = "perform_substitution"
  => \A k \in 1..Len(result.out) :
       LET production == call.production
           t == result.out[k]
       IN CASE production.kind = "NT" -> accepts(production, t) = "True"
            [] production.kind = "Rule" /\ Rhs(production).kind = "NT" ->
                 accepts(Rhs(production), t) = "True"
            [] production.kind = "Rule" /\ IsNode(Rhs(production)) /\ IsNode(t) ->
                 \A h \in 1..Len(holes_indices(Rhs(production))) :
                   LET i == holes_indices(Rhs(production))[h]
                   IN i <= Len(t.children)
                      => accepts(Rhs(production).children[i], t.children[i]) = "True"
            [] OTHER -> TRUE

\* the list in the opposite order
Reversed(cs) == [k \in 1..Len(cs) |-> cs[Len(cs) + 1 - k]]

\* C5: a rule with the constraint list [c1, ..., cn] yields a candidate t iff
\* every ci accepts t, in whatever order the list is, and every tree handed
\* to a constraint of the rule is the fully substituted result of the rule,
\* never a tree that still holds a placeholder.
C5_RuleConstraintsOnCompleteTrees ==
  (call.op = "perform_substitution" /\ call.production.kind = "Rule" /\ call.depth > 0)
  => With(HandedToRule(TheGrammar, call.production, Pools(TheGrammar, call.depth - 1)), LAMBDA handed :
       /\ \A k \in 1..Len(handed) : IsComplete(handed[k])
       /\ result.out = SelectSeq(handed, LAMBDA t :
            \A i \in 1..Len(call.production.constraints) :
              is_valid_entry(call.production.constraints[i], t) = "True")
       /\ \A k \in 1..Len(handed) :
            AllValid(call.production.constraints, handed[k])
              = AllValid(Reversed(call.production.constraints), handed[k]))

(***************************************************************************)
(* Properties of DoesNotEvaluateTo.                                         *)
(***************************************************************************)
RECURSIVE VarNames(_)
\* the names of the variables of a tree
VarNames(t) ==
  IF t.kind = "Var" THEN {t.name}
  ELSE UNION {VarNames(t.children[i]) : i \in 1..Len(t.children)}

\* C10: DoesNotEvaluateTo(v, eval, binds) accepts a tree iff evaluating it
\* under binds gives a value other than v or fails because a variable is
\* missing from binds; every other failure of the evaluation, an operator
\* name absent from the operator table in particular, is no acceptance and
\* leaves is_valid_entry as the exception it is.
C10_OnlyMissingVariableAccepted ==
  (call.op = "is_valid_entry" /\ call.c.c = "DoesNotEvaluateTo")
  => LET r == eval(call.c.evals, call.node, call.c.binds)
         missing == /\ r.exc = "KeyError"
                    /\ r.key \in VarNames(call.node) \ DOMAIN call.c.binds
     IN /\ (result.verdict = "True") <=> ((r.exc = "" /\ (r.none \/ r.v # call.c.val)) \/ missing)
        /\ (r.exc # "" /\ ~missing) => result.verdict = r.exc

(***************************************************************************)
(* The order of what perform_substitution yields.                           *)
(***************************************************************************)
\* no value stands twice in the sequence
NoRepeats(seq) == \A i \in 1..Len(seq) : \A j \in 1..Len(seq) : i # j => seq[i] # seq[j]

\* the place of x in a sequence that holds it once
IndexIn(seq, x) == CHOOSE i \in 1..Len(seq) : seq[i] = x

\* the tuple a comes before the tuple b of the same length in lexicographic
\* order, the first position weighing most
LexLt(a, b) == \E k \in 1..Len(a) : a[k] < b[k] /\ \A j \in 1..(k - 1) : a[j] = b[j]

\* the rules of a symbol taken from the grammar in the order of the += calls
RulesInOrderAppended(g, name) ==
  LET idx == SelectSeq([i \in 1..Len(g.rules) |-> i], LAMBDA i : g.rules[i].name = name)
  IN [k \in 1..Len(idx) |-> g.rules[idx[k]]]

\* for the Node template of the called rule: the places its children hold in
\* the sequences its placeholders gave at depth - 1, one tuple per tree yielded
FillPlaces(node, pools, out) ==
  [k \in 1..Len(out) |->
     [h \in 1..Len(pools) |-> IndexIn(pools[h], out[k].children[holes_indices(node)[h]])]]

\* C6: what perform_substitution yields for a grammar and a depth is fixed and
\* ordered: a symbol gives what its rules give one rule after the other in the
\* order the rules were appended, and a Node template gives its fills in the
\* order of the Cartesian product of what its placeholders give, the leftmost
\* placeholder varying slowest (test_subst_nested_constr: add(1, 0) before
\* add(1, 1)).
C6_RuleOrderAndProductOrder ==
  (call.op = "perform_substitution" /\ call.depth > 0)
  => /\ call.production.kind = "NT"
        => With(RulesInOrderAppended(TheGrammar, call.production.name), LAMBDA rules :
             result = ChainGen(Tuple([i \in 1..Len(rules) |->
                        FilterGen(call.production.constraints,
                                  perform_substitution(TheGrammar, rules[i], call.depth))])))
     /\ (call.production.kind = "Rule" /\ IsNode(Rhs(call.production))
           /\ \A k \in 1..Len(result.out) : IsNode(result.out[k]))
        => With(Pools(TheGrammar, call.depth - 1), LAMBDA lower :
             With(Tuple([h \in 1..Len(holes(Rhs(call.production))) |->
                           PoolOf(lower, holes(Rhs(call.production))[h]).out]), LAMBDA pools :
               (\A h \in 1..Len(pools) : NoRepeats(pools[h]))
               => With(FillPlaces(Rhs(call.production), pools, result.out), LAMBDA places :
                    \A i \in 1..Len(places) : \A j \in 1..Len(places) :
                      i < j => LexLt(places[i], places[j]))))
     /\ (gid = 4 /\ call.production = A /\ call.depth = 2)
        => result = Gen(<<Node("add", <<Int_(1), Int_(0)>>), Node("add", <<Int_(1), Int_(1)>>)>>, "")

\* a rule with two placeholders was expanded, and of the first two trees it
\* yielded the left child is the same and the right child differs
C6_Witness ==
  /\ call.op = "perform_substitution"
  /\ call.depth >= 2
  /\ call.production.kind = "Rule"
  /\ IsNode(Rhs(call.production))
  /\ Len(holes(Rhs(call.production))) = 2
  /\ Len(result.out) >= 4
  /\ result.out[1].children[1] = result.out[2].children[1]
  /\ result.out[1].children[2] # result.out[2].children[2]
  /\ result.out[1].children[1] # result.out[Len(result.out)].children[1]

(***************************************************************************)
(* Depth.                                                                   *)
(***************************************************************************)
\* what the called production gives one depth below the depth of the call
OneDepthBelow == perform_substitution(TheGrammar, call.production, call.depth - 1)

RECURSIVE Height(_)
\* how many Nodes nest on the longest path from the root to a leaf.  Every
\* template of the grammars here holds a placeholder and has leaves at its
\* other places, so that each Node of a produced tree is one filled template
Height(t) ==
  IF ~IsNode(t) \/ t.children = <<>> THEN 0
  ELSE LET hs == {Height(t.children[i]) : i \in 1..Len(t.children)}
       IN 1 + (CHOOSE h \in hs : \A k \in hs : k <= h)

\* the complete trees the called production gives at some depth up to
\* MaxCallDepth whose Nodes nest at most n deep
ProducibleWithin(n) ==
  UNION {{t \in SetOf(perform_substitution(TheGrammar, call.production, d).out) :
            IsComplete(t) /\ Height(t) <= n} : d \in 0..MaxCallDepth}

\* depth <= 0 gives nothing, and a complete tree given at depth d nests at
\* most d - 1 Nodes
NestingBounded ==
  /\ call.depth <= 0 => result = Gen(<<>>, "")
  /\ \A k \in 1..Len(result.out) :
       IsComplete(result.out[k]) => Height(result.out[k]) <= call.depth - 1

ProducibleAt(d) ==
  UNION {SetOf(perform_substitution(TheGrammar, StartProductions[i], d).out) :
           i \in 1..Len(StartProductions)}

\* the tree was emitted, or one the screen takes for the same
Seen(t) == InPrograms(t, SetOf(emitted))

\* every tree producible at depth d was emitted
AllSeen(d) == \A t \in ProducibleAt(d) : Seen(t)

\* the emitted trees come in the order of the depth they are first
\* producible at
EmittedInDepthOrder ==
  With(Tuple([d \in 1..MaxDepth |-> ProducibleAt(d - 1)]), LAMBDA at :
    With(Tuple([k \in 1..Len(emitted) |->
                  Least({d \in 1..MaxDepth : emitted[k] \in at[d]})]), LAMBDA first :
      \A i \in 1..Len(first) : \A j \in 1..Len(first) : i < j => first[i] <= first[j]))

RECURSIVE VarsOf(_)
\* the names of the variables anywhere in the tree
VarsOf(t) ==
  IF t.kind = "Var" THEN {t.name}
  ELSE UNION {VarsOf(t.children[i]) : i \in 1..Len(t.children)}

\* the rule A ::= add(A, A) of the scenario
AddRule == Maps(G13, "A")[2]

\* the add trees among the values yielded
AddTrees(out) == {t \in SetOf(out) : IsNode(t) /\ t.name = "add"}

\* C11: on the grammar val ::= 0 | 1 | x, A ::= val | add(A, A) with
\* DistinctChildren and Dynamic on the add rule, what perform_substitution
\* produces at depth 2 holds add(0, x), and at no depth does it hold an add
\* tree whose two children are the same tree (add(0, 0), add(x, x)) or an add
\* tree with no variable anywhere below it (add(0, 1)).
C11_EndToEndFiltering ==
  (TheGrammar = G13 /\ call.op = "perform_substitution" /\ call.production \in {A, AddRule})
  => /\ result.err = ""
     /\ call.depth = 2 => Node("add", <<Int_(0), Var("x")>>) \in SetOf(result.out)
     /\ \A t \in AddTrees(result.out) :
          /\ Len(t.children) = 2
          /\ t.children[1] # t.children[2]
          /\ VarsOf(t) # {}
     /\ {Node("add", <<Int_(0), Int_(0)>>), Node("add", <<Var("x"), Var("x")>>),
         Node("add", <<Int_(0), Int_(1)>>)} \cap SetOf(result.out) = {}

\* the symbol A of the scenario was expanded at depth 2 and gave the three
\* leaves and the four add trees of a leaf and x
C11_Witness ==
  /\ TheGrammar = G13
  /\ call.op = "perform_substitution"
  /\ call.production = A
  /\ call.depth = 2
  /\ result.err = ""
  /\ Len(result.out) = 7
  /\ AddTrees(result.out) =
       {Node("add", <<Int_(0), Var("x")>>), Node("add", <<Int_(1), Var("x")>>),
        Node("add", <<Var("x"), Int_(0)>>), Node("add", <<Var("x"), Int_(1)>>)}

(***************************************************************************)
(* Direct calls on trees: replace_children, ==, hash (synth/ast.py).        *)
(***************************************************************************)
\* the templates replace_children is called on: two places, placeholders at
\* both or at one
ReplaceTemplates ==
  {Node("sub", <<A, A>>), Node("sub", <<A, Int_(1)>>),
   SymmetricNode("add", <<A, A>>), SymmetricNode("add", <<A, Int_(1)>>),
   SymmetricNode("mul", <<Int_(1), A>>)}

\* the trees put in
Replacements == {Var("x"), Int_(0), Node("sub", <<Var("x"), Int_(0)>>)}

\* ids: positions of the template, each at most once, in any order (counted
\* from 1 where the code counts from 0)
IdsOf(t) ==
  LET places == 1..Len(t.children)
  IN {<<>>} \cup {<<i>> : i \in places}
            \cup {q \in {<<i, j>> : i, j \in places} : q[1] # q[2]}

\* the sequences of replacements of one length
ReplacementsOfLen(n) ==
  CASE n = 0 -> {<<>>}
    [] n = 1 -> {<<r>> : r \in Replacements}
    [] OTHER -> {<<r, q>> : r, q \in Replacements}

InitTree ==
  /\ gid = 1
  /\ SessionInit
  /\ call = NoCall
  /\ result = NoResult

\* t.replace_children(ids, replacements), called as perform_substitution
\* calls it, with as many replacements as ids
CallReplaceChildren ==
  \E t \in ReplaceTemplates :
    \E ids \in IdsOf(t) :
      \E replacements \in ReplacementsOfLen(Len(ids)) :
        /\ call = NoCall
        /\ call' = [op |-> "replace_children", t |-> t, ids |-> ids, replacements |-> replacements]
        /\ result' = replace_children(t, ids, replacements)
        /\ UNCHANGED <<gid, session_vars>>

\* C12: replace_children(ids, replacements) on a Node or a SymmetricNode, for
\* any number of replaced positions given in any order, returns a tree of the
\* same variant and operator name whose child at position ids[i] is
\* replacements[i] for every i and whose other children are those of the
\* original.
C12_ReplaceChildrenByIds ==
  call.op = "replace_children"
  => /\ result.kind = call.t.kind
     /\ result.name = call.t.name
     /\ Len(result.children) = Len(call.t.children)
     /\ \A i \in 1..Len(call.ids) : result.children[call.ids[i]] = call.replacements[i]
     /\ \A p \in 1..Len(call.t.children) :
          p \notin SetOf(call.ids) => result.children[p] = call.t.children[p]

\* the trees compared and hashed: leaves, complete trees, and trees with a
\* placeholder among the children of the root
EqTrees ==
  LET x == Var("x")
      zero == Int_(0)
      s == SymmetricNode("add", <<x, zero>>)
  IN {x, zero, Int_(1), s, SymmetricNode("add", <<zero, x>>), SymmetricNode("mul", <<x, zero>>),
      SymmetricNode("add", <<x, s>>), SymmetricNode("add", <<s, x>>),
      SymmetricNode("add", <<x, x>>),
      Node("add", <<x, zero>>), Node("sub", <<x, zero>>), Node("sub", <<zero, x>>),
      SymmetricNode("add", <<A, zero>>), SymmetricNode("add", <<zero, A>>),
      Node("sub", <<A, zero>>), Node("sub", <<zero, A>>)}

\* hash(t) raising TypeError
TypeErrorHash == [shape |-> "TypeError", name |-> "", val |-> 0, kids |-> <<>>]

\* what hash(t) gives.  `super().__hash__()` inside a dataclass built with
\* slots=True raises TypeError on the interpreters whose zero-argument super
\* still refers to the class as it was before the dataclass was rebuilt, and
\* is Node.__hash__ on the others
HashOutcomes(t) ==
  IF t.kind = "Sym" /\ holes(t) # <<>> THEN {PositionalHash(t), TypeErrorHash} ELSE {HashOf(t)}

\* a == b, hash(a) and hash(b)
CallEq ==
  \E a \in EqTrees, b \in EqTrees :
    \E ha \in HashOutcomes(a), hb \in HashOutcomes(b) :
      /\ call = NoCall
      /\ call' = [op |-> "eq", a |-> a, b |-> b]
      /\ result' = [eq |-> Eq(a, b), hash_a |-> ha, hash_b |-> hb]
      /\ UNCHANGED <<gid, session_vars>>

NextTree == CallReplaceChildren \/ CallEq

SpecTree == InitTree /\ [][NextTree]_vars

\* the children of a and b are equal position by position
SameChildren(a, b) ==
  /\ Len(a.children) = Len(b.children)
  /\ \A i \in 1..Len(a.children) : Eq(a.children[i], b.children[i])

\* a and b have the same two children as an unordered pair
SamePair(a, b) ==
  /\ Len(a.children) = 2
  /\ Len(b.children) = 2
  /\ \/ Eq(a.children[1], b.children[1]) /\ Eq(a.children[2], b.children[2])
     \/ Eq(a.children[1], b.children[2]) /\ Eq(a.children[2], b.children[1])

\* C13: two trees compare equal only if they have the same operator name and
\* either the same children position by position or, both being complete
\* SymmetricNodes, the same two children as an unordered pair; a
\* SymmetricNode that still holds a placeholder is equal to no tree of
\* another structure; and two trees that compare equal have equal hashes.
C13_EqualitySoundAndHashed ==
  (call.op = "eq" /\ result.eq)
  => /\ call.a.kind = call.b.kind
     /\ call.a.name = call.b.name
     /\ call.a.val = call.b.val
     /\ \/ SameChildren(call.a, call.b)
        \/ /\ call.a.kind = "Sym"
           /\ IsComplete(call.a)
           /\ IsComplete(call.b)
           /\ SamePair(call.a, call.b)
     /\ (call.a.kind = "Sym" /\ ~IsComplete(call.a)) => call.a = call.b
     /\ result.hash_a # TypeErrorHash
     /\ result.hash_a = result.hash_b

====
